---- MODULE Spec2Model ----
(***************************************************************************)
(* Text front end of GPT-SoVITS: the language dispatcher clean_text        *)
(* (GPT_SoVITS/text/cleaner.py) and the Vietnamese grapheme-to-phoneme     *)
(* strategy (GPT_SoVITS/text/vietnamese.py).                               *)
(*                                                                         *)
(* Encoding.  A Python str is a sequence of code points; here it is a      *)
(* sequence of code-point names, each name a TLA+ string.  An ASCII code   *)
(* point is named by itself.  The Vietnamese letters are named in Telex    *)
(* style: dd (d with stroke), aw (a breve), aa (a circumflex), ee, oo,     *)
(* ow (o horn), uw (u horn); a tone-marked vowel is the name of its base   *)
(* followed by the tone digit of TONE_MAPPING (a2 = a grave, aw3 = a breve *)
(* acute, ...).  "yen" names the full-width yen sign of cleaner.py line 8. *)
(* A phoneme token is a str, hence also a sequence: 'ch' is <<"c", "h">>,   *)
(* 'UNK' is <<"U", "N", "K">> and the tone token '2' is <<"2">>.            *)
(* A Python list is a sequence; Optional values are None == <<>> or        *)
(* Some(v) == <<v>>.                                                       *)
(***************************************************************************)
EXTENDS Integers, Sequences, FiniteSets, TLC

VARIABLES
  op,            \* the function that was called last
  arg_text,      \* its text / word argument
  arg_language,  \* clean_text: the language argument
  arg_version,   \* clean_text: the version argument ("None" when omitted)
  fed,           \* the argument is the value returned by the previous call
  raised,        \* "" when the call returned, else the exception it raised
  ret,           \* the returned value, a record whose fields depend on op
  locals         \* the callee's local variables when it returned or raised

vars == <<op, arg_text, arg_language, arg_version, fed, raised, ret, locals>>

None == <<>>
Some(v) == <<v>>

----------------------------------------------------------------------------
(* Static tables of vietnamese.py *)

INITIALS ==
  <<
    <<"b">>, <<"t">>, <<"t", "h">>, <<"dd">>, <<"c", "h">>, <<"k", "h">>, <<"g">>, <<"h">>,
    <<"l">>, <<"m">>, <<"n">>, <<"n", "h">>, <<"p", "h">>, <<"r">>, <<"s">>, <<"t", "r">>,
    <<"v">>, <<"x">>, <<"q", "u">>, <<"g", "i">>, <<"k">>, <<"n", "g">>, <<"n", "g", "h">>, <<"c">>,
    <<"d">>, <<"p">>
  >>

FINALS ==
  <<
    <<"a">>, <<"aw">>, <<"aa">>, <<"e">>, <<"ee">>, <<"i">>,
    <<"o">>, <<"oo">>, <<"ow">>, <<"u">>, <<"uw">>, <<"y">>,
    <<"a", "i">>, <<"a", "o">>, <<"a", "u">>, <<"a", "y">>, <<"e", "o">>, <<"ee", "u">>,
    <<"i", "a">>, <<"i", "ee">>, <<"i", "u">>, <<"o", "a">>, <<"o", "aw">>, <<"o", "e">>,
    <<"o", "i">>, <<"oo", "i">>, <<"ow", "i">>, <<"u", "a">>, <<"u", "aa">>, <<"u", "e">>,
    <<"u", "ee">>, <<"u", "i">>, <<"u", "o">>, <<"uw", "ow">>, <<"u", "y">>, <<"y", "ee">>,
    <<"y", "a">>, <<"aa", "u">>, <<"aw", "u">>, <<"i", "ee", "u">>, <<"y", "ee", "u">>, <<"u", "oo", "i">>,
    <<"uw", "ow", "i">>, <<"uw", "ow", "u">>, <<"a", "n">>, <<"aw", "n">>, <<"aa", "n">>, <<"e", "n">>,
    <<"ee", "n">>, <<"i", "n">>, <<"o", "n">>, <<"oo", "n">>, <<"ow", "n">>, <<"u", "n">>,
    <<"uw", "n">>, <<"y", "n">>, <<"a", "n", "g">>, <<"aw", "n", "g">>, <<"aa", "n", "g">>, <<"e", "n", "g">>,
    <<"ee", "n", "g">>, <<"i", "n", "g">>, <<"o", "n", "g">>, <<"oo", "n", "g">>, <<"ow", "n", "g">>, <<"u", "n", "g">>,
    <<"uw", "n", "g">>, <<"a", "n", "h">>, <<"ee", "n", "h">>, <<"i", "n", "h">>, <<"o", "a", "n", "h">>, <<"u", "ee", "n", "h">>,
    <<"a", "c", "h">>, <<"ee", "c", "h">>, <<"i", "c", "h">>, <<"o", "c", "h">>, <<"oo", "c", "h">>, <<"ow", "c", "h">>,
    <<"u", "c", "h">>, <<"uw", "c", "h">>, <<"a", "c">>, <<"aw", "c">>, <<"aa", "c">>, <<"e", "c">>,
    <<"ee", "c">>, <<"i", "c">>, <<"o", "c">>, <<"oo", "c">>, <<"ow", "c">>, <<"u", "c">>,
    <<"uw", "c">>, <<"a", "p">>, <<"aw", "p">>, <<"aa", "p">>, <<"e", "p">>, <<"ee", "p">>,
    <<"i", "p">>, <<"o", "p">>, <<"oo", "p">>, <<"ow", "p">>, <<"u", "p">>, <<"uw", "p">>,
    <<"a", "t">>, <<"aw", "t">>, <<"aa", "t">>, <<"e", "t">>, <<"ee", "t">>, <<"i", "t">>,
    <<"o", "t">>, <<"oo", "t">>, <<"ow", "t">>, <<"u", "t">>, <<"uw", "t">>
  >>

TONE_MAPPING ==
     "a2" :> <<"a", "2">> @@ "a3" :> <<"a", "3">> @@ "a4" :> <<"a", "4">> @@ "a5" :> <<"a", "5">> @@ "a6" :> <<"a", "6">> @@
     "aw2" :> <<"aw", "2">> @@ "aw3" :> <<"aw", "3">> @@ "aw4" :> <<"aw", "4">> @@ "aw5" :> <<"aw", "5">> @@ "aw6" :> <<"aw", "6">> @@
     "aa2" :> <<"aa", "2">> @@ "aa3" :> <<"aa", "3">> @@ "aa4" :> <<"aa", "4">> @@ "aa5" :> <<"aa", "5">> @@ "aa6" :> <<"aa", "6">> @@
     "e2" :> <<"e", "2">> @@ "e3" :> <<"e", "3">> @@ "e4" :> <<"e", "4">> @@ "e5" :> <<"e", "5">> @@ "e6" :> <<"e", "6">> @@
     "ee2" :> <<"ee", "2">> @@ "ee3" :> <<"ee", "3">> @@ "ee4" :> <<"ee", "4">> @@ "ee5" :> <<"ee", "5">> @@ "ee6" :> <<"ee", "6">> @@
     "i2" :> <<"i", "2">> @@ "i3" :> <<"i", "3">> @@ "i4" :> <<"i", "4">> @@ "i5" :> <<"i", "5">> @@ "i6" :> <<"i", "6">> @@
     "o2" :> <<"o", "2">> @@ "o3" :> <<"o", "3">> @@ "o4" :> <<"o", "4">> @@ "o5" :> <<"o", "5">> @@ "o6" :> <<"o", "6">> @@
     "oo2" :> <<"oo", "2">> @@ "oo3" :> <<"oo", "3">> @@ "oo4" :> <<"oo", "4">> @@ "oo5" :> <<"oo", "5">> @@ "oo6" :> <<"oo", "6">> @@
     "ow2" :> <<"ow", "2">> @@ "ow3" :> <<"ow", "3">> @@ "ow4" :> <<"ow", "4">> @@ "ow5" :> <<"ow", "5">> @@ "ow6" :> <<"ow", "6">> @@
     "u2" :> <<"u", "2">> @@ "u3" :> <<"u", "3">> @@ "u4" :> <<"u", "4">> @@ "u5" :> <<"u", "5">> @@ "u6" :> <<"u", "6">> @@
     "uw2" :> <<"uw", "2">> @@ "uw3" :> <<"uw", "3">> @@ "uw4" :> <<"uw", "4">> @@ "uw5" :> <<"uw", "5">> @@ "uw6" :> <<"uw", "6">> @@
     "y2" :> <<"y", "2">> @@ "y3" :> <<"y", "3">> @@ "y4" :> <<"y", "4">> @@ "y5" :> <<"y", "5">> @@ "y6" :> <<"y", "6">>

AllowListed ==
  {
    "a2", "a3", "a4", "a5", "a6", "aw2", "aw3", "aw4", "aw5", "aw6",
    "aa2", "aa3", "aa4", "aa5", "aa6", "e2", "e3", "e4", "e5", "e6",
    "ee2", "ee3", "ee4", "ee5", "ee6", "i2", "i3", "i4", "i5", "i6",
    "o2", "o3", "o4", "o5", "o6", "oo2", "oo3", "oo4", "oo5", "oo6",
    "ow2", "ow3", "ow4", "ow5", "ow6", "u2", "u3", "u4", "u5", "u6",
    "uw2", "uw3", "uw4", "uw5", "uw6", "y2", "y3", "y4", "y5", "y6",
    "dd"
  }

TONES == << <<"1">>, <<"2">>, <<"3">>, <<"4">>, <<"5">>, <<"6">> >>

SPECIAL == << <<"S", "P">>, <<"S", "P", "2">>, <<"S", "P", "3">>, <<"U", "N", "K">> >>

UNK == <<"U", "N", "K">>

PUNCTUATION == << <<",">>, <<".">>, <<"!">>, <<"?">> >>

\* x in list
In(x, list) == \E i \in 1..Len(list) : list[i] = x

----------------------------------------------------------------------------
(* Character classes of the regular expressions and of str methods *)

AsciiLower ==
  {"a", "b", "c", "d", "e", "f", "g", "h", "i", "j", "k", "l", "m",
   "n", "o", "p", "q", "r", "s", "t", "u", "v", "w", "x", "y", "z"}

AsciiUpper ==
  {"A", "B", "C", "D", "E", "F", "G", "H", "I", "J", "K", "L", "M",
   "N", "O", "P", "Q", "R", "S", "T", "U", "V", "W", "X", "Y", "Z"}

Digits == {"0", "1", "2", "3", "4", "5", "6", "7", "8", "9"}

VietLower == {"dd", "aw", "aa", "ee", "oo", "ow", "uw"} \cup DOMAIN TONE_MAPPING

\* str.isspace / the class \s
IsSpace(c) == c \in {" ", "\t", "\n", "\r"}

\* the class \w of a str pattern: alphanumerics and the underscore
IsWordChar(c) == c \in AsciiLower \cup AsciiUpper \cup Digits \cup VietLower \cup {"_"}

\* str.lower, one code point
LowerChar(c) ==
  CASE c = "A" -> "a" [] c = "B" -> "b" [] c = "C" -> "c" [] c = "D" -> "d"
    [] c = "E" -> "e" [] c = "F" -> "f" [] c = "G" -> "g" [] c = "H" -> "h"
    [] c = "I" -> "i" [] c = "J" -> "j" [] c = "K" -> "k" [] c = "L" -> "l"
    [] c = "M" -> "m" [] c = "N" -> "n" [] c = "O" -> "o" [] c = "P" -> "p"
    [] c = "Q" -> "q" [] c = "R" -> "r" [] c = "S" -> "s" [] c = "T" -> "t"
    [] c = "U" -> "u" [] c = "V" -> "v" [] c = "W" -> "w" [] c = "X" -> "x"
    [] c = "Y" -> "y" [] c = "Z" -> "z" [] OTHER -> c

\* the class [;:"'] of line 72
IsCommaPunct(c) == c \in {";", ":", "\"", "'"}

\* the complement of the negated class of line 75
IsKept(c) ==
  \/ IsWordChar(c)
  \/ IsSpace(c)
  \/ c \in {",", ".", "!", "?"}
  \/ c \in AllowListed

----------------------------------------------------------------------------
(* str helpers *)

RECURSIVE LStrip(_)
LStrip(s) ==
  IF s /= <<>> /\ IsSpace(Head(s)) THEN LStrip(Tail(s)) ELSE s

RECURSIVE RStrip(_)
RStrip(s) ==
  IF s /= <<>> /\ IsSpace(s[Len(s)]) THEN RStrip(SubSeq(s, 1, Len(s) - 1)) ELSE s

\* str.strip()
Strip(s) == RStrip(LStrip(s))

\* re.sub(r'\s+', ' ', s): every maximal run of whitespace becomes one blank
RECURSIVE CollapseSpaces(_)
CollapseSpaces(s) ==
  IF s = <<>> THEN <<>>
  ELSE IF IsSpace(Head(s))
       THEN IF Len(s) > 1 /\ IsSpace(s[2])
            THEN CollapseSpaces(Tail(s))
            ELSE <<" ">> \o CollapseSpaces(Tail(s))
       ELSE <<Head(s)>> \o CollapseSpaces(Tail(s))

\* re.sub(r'[;:"\']+', ',', s): every maximal run of the class becomes one comma
RECURSIVE CommaRuns(_)
CommaRuns(s) ==
  IF s = <<>> THEN <<>>
  ELSE IF IsCommaPunct(Head(s))
       THEN IF Len(s) > 1 /\ IsCommaPunct(s[2])
            THEN CommaRuns(Tail(s))
            ELSE <<",">> \o CommaRuns(Tail(s))
       ELSE <<Head(s)>> \o CommaRuns(Tail(s))

\* str.lower()
Lower(s) == [i \in 1..Len(s) |-> LowerChar(s[i])]

\* re.sub(negated class, '', s)
KeepAllowed(s) == SelectSeq(s, IsKept)

\* str.startswith
StartsWith(s, p) == Len(p) <= Len(s) /\ SubSeq(s, 1, Len(p)) = p

\* s[n:]
Drop(s, n) == SubSeq(s, n + 1, Len(s))

\* str.replace(old, new), old of length 2: leftmost non-overlapping matches
RECURSIVE Replace(_, _, _)
Replace(s, old, new) ==
  IF Len(s) < Len(old) THEN s
  ELSE IF StartsWith(s, old)
       THEN new \o Replace(Drop(s, Len(old)), old, new)
       ELSE <<Head(s)>> \o Replace(Tail(s), old, new)

\* str.split(): the maximal runs of non-whitespace, in order
RECURSIVE SplitFrom(_, _)
SplitFrom(s, word) ==
  IF s = <<>> THEN (IF word = <<>> THEN <<>> ELSE <<word>>)
  ELSE IF IsSpace(Head(s))
       THEN (IF word = <<>> THEN <<>> ELSE <<word>>) \o SplitFrom(Tail(s), <<>>)
       ELSE SplitFrom(Tail(s), Append(word, Head(s)))

Split(s) == SplitFrom(s, <<>>)

RECURSIVE Sum(_)
Sum(ns) == IF ns = <<>> THEN 0 ELSE Head(ns) + Sum(Tail(ns))

----------------------------------------------------------------------------
(* vietnamese.py *)

\* lines 54-77
text_normalize(text) ==
  LET collapsed == CollapseSpaces(Strip(text))
      lowered   == Lower(collapsed)
      commas    == CommaRuns(lowered)
  IN  KeepAllowed(commas)

\* lines 92-97, the loop over the characters of word
RECURSIVE find_tone_loop(_, _, _)
find_tone_loop(word, result, tone) ==
  IF word = <<>> THEN <<result, tone>>
  ELSE LET char == Head(word)
       IN  IF char \in DOMAIN TONE_MAPPING
           THEN find_tone_loop(Tail(word), Append(result, TONE_MAPPING[char][1]),
                               <<TONE_MAPPING[char][2]>>)
           ELSE find_tone_loop(Tail(word), Append(result, char), tone)

\* lines 79-99: (word without tone marks, tone)
find_tone(word) == find_tone_loop(word, <<>>, <<"1">>)

\* the length of the longest member of list
LongestOf(list) ==
  CHOOSE n \in 0..Len(list) + 1 :
    /\ \A i \in 1..Len(list) : Len(list[i]) <= n
    /\ \/ n = 0
       \/ \E i \in 1..Len(list) : Len(list[i]) = n

\* the members of list of length n, in list order
OfLen(list, n) == SelectSeq(list, LAMBDA x : Len(x) = n)

\* sorted(list, key=len, reverse=True): stable, so equal lengths keep list order
RECURSIVE SortedByLenDesc(_, _)
SortedByLenDesc(list, n) ==
  IF n = 0 THEN OfLen(list, 0)
  ELSE OfLen(list, n) \o SortedByLenDesc(list, n - 1)

\* line 117
sorted_initials == SortedByLenDesc(INITIALS, LongestOf(INITIALS))

\* lines 115-123: the first candidate the word starts with, '' when there is none
RECURSIVE match_initial(_, _)
match_initial(word, candidates) ==
  IF candidates = <<>> THEN <<>>
  ELSE IF StartsWith(word, Head(candidates)) THEN Head(candidates)
       ELSE match_initial(word, Tail(candidates))

\* lines 151-156: (old, new) of each str.replace
transformations ==
  << << <<"u", "o">>, <<"uw", "o">> >>,
     << <<"u", "a">>, <<"uw", "a">> >>,
     << <<"o", "i">>, <<"ow", "i">> >>,
     << <<"o", "u">>, <<"ow", "u">> >> >>

\* lines 158-163
RECURSIVE try_transformations(_, _)
try_transformations(final, ts) ==
  IF ts = <<>> THEN final
  ELSE LET transformed == Replace(final, Head(ts)[1], Head(ts)[2])
       IN  IF In(transformed, FINALS) THEN transformed
           ELSE try_transformations(final, Tail(ts))

\* lines 136-163
find_closest_final(final) ==
  IF In(final, FINALS) THEN final ELSE try_transformations(final, transformations)

\* lines 128-132: the final after validation against FINALS
validated_final(final) ==
  IF In(final, FINALS) THEN final
  ELSE IF find_closest_final(final) /= <<>> THEN find_closest_final(final)
       ELSE final

\* lines 121-134, given the initial that matched
split_at(word_without_tone, tone, initial) ==
  [word_without_tone |-> word_without_tone, tone |-> tone, initial |-> initial,
   candidate |-> Drop(word_without_tone, Len(initial)),
   final |-> validated_final(Drop(word_without_tone, Len(initial)))]

\* mutant of split_toned: the initials are tried in the order of INITIALS
split_toned_unsorted(toned) ==
  split_at(toned[1], toned[2], match_initial(toned[1], INITIALS))

\* lines 115-134, given (word without tone marks, tone)
split_toned(toned) ==
  split_at(toned[1], toned[2], match_initial(toned[1], sorted_initials))

\* lines 112-132: the local variables of split_vietnamese_word at its return
split_locals(word) == split_toned(find_tone(word))

\* line 134
split_return(l) == <<l.initial, l.final, l.tone>>

\* lines 101-134: (initial, final, tone)
split_vietnamese_word(word) == split_return(split_locals(word))

\* lines 197-209: current_phonemes, given s = (initial, final, tone)
phonemes_of(s) ==
  (IF s[1] /= <<>> THEN <<IF In(s[1], INITIALS) THEN s[1] ELSE UNK>> ELSE <<>>)
  \o (IF s[2] /= <<>> THEN <<IF In(s[2], FINALS) THEN s[2] ELSE UNK>> ELSE <<>>)
  \o (IF s[3] /= <<"1">> THEN <<s[3]>> ELSE <<>>)

\* phonemes_of without the checks of lines 199 and 204
raw_phonemes_of(s) ==
  (IF s[1] /= <<>> THEN <<s[1]>> ELSE <<>>)
  \o (IF s[2] /= <<>> THEN <<s[2]>> ELSE <<>>)
  \o (IF s[3] /= <<"1">> THEN <<s[3]>> ELSE <<>>)

\* lines 194-209
current_phonemes(word) == phonemes_of(split_vietnamese_word(word))

\* phonemes.append / phonemes.extend and word2ph.append
emit(acc, tokens, n) ==
  [phonemes |-> acc.phonemes \o tokens, word2ph |-> Append(acc.word2ph, n)]

\* lines 211-212
emit_word(acc, cur) == emit(acc, cur, Len(cur))

\* emit_word with the count taken before the tone was appended
emit_word_before_tone(acc, cur) ==
  emit(acc, cur, IF cur /= <<>> /\ In(cur[Len(cur)], Tail(TONES))
                 THEN Len(cur) - 1 ELSE Len(cur))

\* emit with the token counted with the word before it, when there is one
emit_merged(acc, tokens) ==
  IF acc.word2ph = <<>> THEN emit(acc, tokens, 1)
  ELSE [phonemes |-> acc.phonemes \o tokens,
        word2ph  |-> [acc.word2ph EXCEPT ![Len(acc.word2ph)] = @ + 1]]

\* mutant of g2p_step: the alignment count is taken before the tone is appended
g2p_step_tone_uncounted(word, acc) ==
  IF In(word, PUNCTUATION) THEN emit(acc, <<word>>, 1)
  ELSE IF In(word, SPECIAL) THEN emit(acc, <<word>>, 1)
  ELSE emit_word_before_tone(acc, current_phonemes(word))

\* mutant of g2p_step: a punctuation mark is counted with the word before it
g2p_step_merge_punct(word, acc) ==
  IF In(word, PUNCTUATION) THEN emit_merged(acc, <<word>>)
  ELSE IF In(word, SPECIAL) THEN emit(acc, <<word>>, 1)
  ELSE emit_word(acc, current_phonemes(word))

\* mutant of g2p_step: initial and final are emitted without the checks
g2p_step_raw_final(word, acc) ==
  IF In(word, PUNCTUATION) THEN emit(acc, <<word>>, 1)
  ELSE IF In(word, SPECIAL) THEN emit(acc, <<word>>, 1)
  ELSE emit_word(acc, raw_phonemes_of(split_vietnamese_word(word)))

\* lines 180-212: one iteration of the loop over words
g2p_step(word, acc) ==
  IF In(word, PUNCTUATION) THEN emit(acc, <<word>>, 1)
  ELSE IF In(word, SPECIAL) THEN emit(acc, <<word>>, 1)
  ELSE emit_word(acc, current_phonemes(word))

RECURSIVE g2p_loop(_, _)
g2p_loop(words, acc) ==
  IF words = <<>> THEN acc ELSE g2p_loop(Tail(words), g2p_step(Head(words), acc))

\* lines 175-176
g2p_words(text) == Split(text_normalize(text))

\* lines 177-178
g2p_start == [phonemes |-> <<>>, word2ph |-> <<>>]

\* line 214
g2p_return(acc) == <<acc.phonemes, acc.word2ph>>

\* lines 165-214: (phonemes, word2ph)
g2p(text) == g2p_return(g2p_loop(g2p_words(text), g2p_start))

----------------------------------------------------------------------------
(* cleaner.py *)

\* lines 7-10: (marker, trigger language, target symbol)
special ==
  << << <<"yen">>, "zh", <<"S", "P", "2">> >>,
     << <<"^">>,   "zh", <<"S", "P", "3">> >> >>

\* text.symbols.symbols and text.symbols2.symbols (lines 4-5, 16, 24): the tables
\* live outside the two modules above; two different token sets stand for them.
symbols_v1 ==
  {<<",">>, <<".">>, <<"!">>, <<"?">>, <<"S", "P">>, <<"S", "P", "2">>,
   <<"S", "P", "3">>, <<"U", "N", "K">>, <<"a">>, <<"s">>}

symbols_v2 ==
  {<<",">>, <<".">>, <<"!">>, <<"?">>, <<"S", "P">>, <<"S", "P", "2">>,
   <<"S", "P", "3">>, <<"U", "N", "K">>, <<"s">>, <<"p">>, <<"2">>, <<"E", "E">>}

\* lines 13-14: the version argument, or the process environment's, or 'v2'
resolve_version(version, environ) ==
  IF version = "None"
  THEN (IF environ = None THEN "v2" ELSE environ[1])
  ELSE version

\* lines 15-32: the symbol table of a version
symbols_of(version) == IF version = "v1" THEN symbols_v1 ELSE symbols_v2

\* lines 15-32: the keys of language_module_map
language_module_map(version) ==
  IF version = "v1"
  THEN {"zh", "ja", "en", "vi"}
  ELSE {"zh", "ja", "en", "ko", "yue", "vi"}

\* mutant of fallback: the language is replaced and the text is kept
fallback_keeps_text(language, text, map) ==
  IF language \notin map THEN <<"en", text>> ELSE <<language, text>>

\* lines 34-36: (language, text) after the unknown-language fallback
fallback(language, text, map) ==
  IF language \notin map THEN <<"en", <<" ">> >> ELSE <<language, text>>

\* sub in text
Contains(text, sub) ==
  \E i \in 0..(Len(text) - Len(sub)) : SubSeq(text, i + 1, i + Len(sub)) = sub

\* lines 38-40: the index in special of the first triple that matches, 0 for none
RECURSIVE first_special(_, _, _)
first_special(text, language, i) ==
  IF i > Len(special) THEN 0
  ELSE IF Contains(text, special[i][1]) /\ language = special[i][2] THEN i
       ELSE first_special(text, language, i + 1)

MinPhones == 4

\* lines 58-59
pad(phones) == IF Len(phones) < MinPhones THEN << <<",">> >> \o phones ELSE phones

\* mutant of validate: the phonemes are returned as the strategy gave them
validate_nothing(phones, symbols) == phones

\* line 65
validate(phones, symbols) ==
  [i \in 1..Len(phones) |-> IF phones[i] \notin symbols THEN UNK ELSE phones[i]]

\* the local variables of clean_text that the properties below read
clean_locals(version, language, text, hit, phones) ==
  [version |-> version, language |-> language, text |-> text,
   special |-> IF hit = 0 THEN None ELSE Some(special[hit][3]),
   g2p_phones |-> phones]

clean_raise(exception, loc) == [raised |-> exception, ret |-> None, locals |-> loc]

\* line 66
clean_return(phones, word2ph, norm_text, loc) ==
  [raised |-> "", locals |-> loc,
   ret |-> [phones |-> phones, word2ph |-> word2ph, norm_text |-> norm_text]]

\* lines 49-66, given out, what the strategy's g2p returned
after_g2p(language, text, version, norm_text, out, loc) ==
  IF language \in {"zh", "yue"}
  THEN IF Len(out[1]) /= Sum(out[2]) \/ Len(norm_text) /= Len(out[2])
       THEN clean_raise("AssertionError", loc)
       ELSE clean_return(validate(out[1], symbols_of(version)), Some(out[2]), norm_text, loc)
  ELSE IF language = "vi"
  THEN IF Len(out[1]) /= Sum(out[2])
       THEN clean_raise("AssertionError", loc)
       ELSE clean_return(validate(out[1], symbols_of(version)), Some(out[2]), norm_text, loc)
  ELSE IF language = "en"
  THEN clean_return(validate(pad(out[1]), symbols_of(version)), None, norm_text, loc)
  ELSE clean_return(validate(out[1], symbols_of(version)), None, norm_text, loc)

\* lines 50, 54, 57, 62: g2p of the strategy
strategy_g2p(language, norm_text, ext) ==
  IF language = "vi" THEN g2p(norm_text) ELSE <<ext.phones, ext.word2ph>>

\* lines 44-47: text_normalize of the strategy when it has one
strategy_normalize(language, text, ext) ==
  IF language = "vi" THEN text_normalize(text)
  ELSE IF ext.normalize = None THEN text ELSE ext.normalize[1]

with_g2p(language, text, version, norm_text, out) ==
  after_g2p(language, text, version, norm_text, out,
            clean_locals(version, language, text, 0, out[1]))

with_norm_text(language, text, version, ext, norm_text) ==
  with_g2p(language, text, version, norm_text, strategy_g2p(language, norm_text, ext))

\* lines 38-66, given hit, the index of the first matching triple of special
after_special(language, text, hit, version, ext) ==
  IF hit /= 0
  THEN \* line 40: the name clean_special is bound nowhere in the module
       clean_raise("NameError", clean_locals(version, language, text, hit, <<>>))
  ELSE with_norm_text(language, text, version, ext,
                      strategy_normalize(language, text, ext))

\* lines 38-66, given fb = (language, text) after the fallback
after_fallback(fb, version, ext) ==
  after_special(fb[1], fb[2], first_special(fb[2], fb[1], 1), version, ext)

\* lines 15-66, given the resolved version
after_version(text, language, version, ext) ==
  after_fallback(fallback(language, text, language_module_map(version)), version, ext)

\* lines 12-66.  environ is os.environ.get('version'); ext is what the imported
\* strategy of a language other than 'vi' does: ext.normalize is None when the
\* module has no text_normalize and Some(its result) otherwise, ext.phones and
\* ext.word2ph are what its g2p returns.
clean_text(text, language, version, environ, ext) ==
  after_version(text, language, resolve_version(version, environ), ext)

----------------------------------------------------------------------------
(* Bounds and the inputs drawn within them *)

MaxTextLen == 4
MaxCleanLen == 5
MaxWordLen == 4
MaxMarkerTextLen == 2
MaxExtPhones == 4
MaxExtWords == 1

SeqsUpTo(S, n) == UNION {[1..k -> S] : k \in 0..n}

\* texts given to text_normalize and g2p: blank, a deleted character, the two
\* punctuation classes, upper case, a vowel with and without a tone mark
TextAlphabet == {" ", "#", ";", ",", "S", "P", "a", "a2"}
Texts == SeqsUpTo(TextAlphabet, MaxTextLen)

\* texts given to clean_text with language 'vi'
CleanAlphabet == {" ", "#", ";", "a2"}
CleanTexts == SeqsUpTo(CleanAlphabet, MaxCleanLen)

\* words given to split_vietnamese_word
WordAlphabet == {"n", "g", "h", "t", "a", "a2", "o", "i"}
Words == SeqsUpTo(WordAlphabet, MaxWordLen)

\* texts given to clean_text with another language: the two markers
MarkerAlphabet == {"yen", "^"}
MarkerTexts == SeqsUpTo(MarkerAlphabet, MaxMarkerTextLen)

Languages == {"zh", "ja", "en", "ko", "yue", "vi", "fr"}
VersionArgs == {"None", "v1", "v2", "v3"}

\* os.environ.get('version') where it is read: unset, or set to 'v1'
Environs(version) == IF version = "None" THEN {None, Some("v1")} ELSE {None}

\* what a strategy other than 'vi' may do: it has no text_normalize or its
\* text_normalize returns 'a'; its g2p returns phonemes among ExtTokens and,
\* for 'zh' and 'yue', alignment counts of 1 and 2
ExtTokens == {<<"a">>, <<"E", "E">>}
ExtNormalize == {None, Some(<<"a">>)}
ExtPhones == SeqsUpTo(ExtTokens, MaxExtPhones)
ExtWord2ph(language) ==
  IF language \in {"zh", "yue"} THEN SeqsUpTo({1, 2}, MaxExtWords) ELSE {<<>>}
NoExt == [normalize |-> None, phones |-> <<>>, word2ph |-> <<>>]

----------------------------------------------------------------------------
(* The calls.  Every function is pure and the tables are never written, so a
   behaviour is one call from the start state; text_normalize may then be
   called again on its own result, as clean_text followed by g2p does. *)

Init ==
  /\ op = "start"
  /\ arg_text = <<>>
  /\ arg_language = ""
  /\ arg_version = ""
  /\ fed = FALSE
  /\ raised = ""
  /\ ret = None
  /\ locals = None

\* text_normalize(x)
TextNormalize(x) ==
  /\ op' = "text_normalize"
  /\ arg_text' = x
  /\ fed' = FALSE
  /\ raised' = ""
  /\ ret' = [text |-> text_normalize(x)]
  /\ UNCHANGED <<arg_language, arg_version>>
  /\ locals' = None

\* text_normalize applied to what text_normalize returned (cleaner.py line 45
\* followed by vietnamese.py line 175)
TextNormalizeAgain ==
  /\ op = "text_normalize"
  /\ raised = ""
  /\ op' = "text_normalize"
  /\ arg_text' = ret.text
  /\ fed' = TRUE
  /\ raised' = ""
  /\ ret' = [text |-> text_normalize(ret.text)]
  /\ UNCHANGED <<arg_language, arg_version>>
  /\ locals' = None

\* split_vietnamese_word(word)
SplitVietnameseWord(word) ==
  /\ op' = "split_vietnamese_word"
  /\ arg_text' = word
  /\ fed' = FALSE
  /\ raised' = ""
  /\ \E l \in {split_locals(word)} :
       /\ ret' = [initial |-> split_return(l)[1], final |-> split_return(l)[2],
                  tone |-> split_return(l)[3]]
       /\ locals' = l
  /\ UNCHANGED <<arg_language, arg_version>>

\* g2p(text)
G2P(text) ==
  /\ op' = "g2p"
  /\ arg_text' = text
  /\ fed' = FALSE
  /\ raised' = ""
  /\ \E r \in {g2p(text)} : ret' = [phonemes |-> r[1], word2ph |-> r[2]]
  /\ locals' = None
  /\ UNCHANGED <<arg_language, arg_version>>

\* clean_text(text, language, version)
CleanText(text, language, version, environ, ext) ==
  \E r \in {clean_text(text, language, version, environ, ext)} :
      /\ op' = "clean_text"
      /\ arg_text' = text
      /\ arg_language' = language
      /\ arg_version' = version
      /\ fed' = FALSE
      /\ raised' = r.raised
      /\ ret' = r.ret
      /\ locals' = r.locals

CallTextNormalize ==
  /\ op = "start"
  /\ \E x \in Texts : TextNormalize(x)

CallSplitVietnameseWord ==
  /\ op = "start"
  /\ \E word \in Words : SplitVietnameseWord(word)

CallG2P ==
  /\ op = "start"
  /\ \E text \in Texts : G2P(text)

\* language 'vi': the strategy is vietnamese.py
CallCleanTextVi ==
  /\ op = "start"
  /\ \E text \in CleanTexts, version \in VersionArgs :
       \E environ \in Environs(version) :
         CleanText(text, "vi", version, environ, NoExt)

\* any other language: the strategy is a module outside the two above
CallCleanTextOther ==
  /\ op = "start"
  /\ \E text \in MarkerTexts, language \in Languages \ {"vi"}, version \in VersionArgs :
       \E environ \in Environs(version), n \in ExtNormalize,
          p \in ExtPhones, w \in ExtWord2ph(language) :
         CleanText(text, language, version, environ,
                   [normalize |-> n, phones |-> p, word2ph |-> w])

Next ==
  \/ CallTextNormalize
  \/ TextNormalizeAgain
  \/ CallSplitVietnameseWord
  \/ CallG2P
  \/ CallCleanTextVi
  \/ CallCleanTextOther

Spec == Init /\ [][Next]_vars

----------------------------------------------------------------------------
(* Properties *)

\* the set of the members of a list
Range(list) == {list[i] : i \in 1..Len(list)}

\* a call of clean_text with language 'vi' that returned
ViReturned == op = "clean_text" /\ arg_language = "vi" /\ raised = ""

\* C1: for every input text, Vietnamese g2p returns (phonemes, word2ph) with
\* sum(word2ph) == len(phonemes), so clean_text with language 'vi' never fails
\* its alignment assertion.
C1_AlignmentSum ==
  /\ op = "g2p" => Sum(ret.word2ph) = Len(ret.phonemes)
  /\ (op = "clean_text" /\ arg_language = "vi") => raised = ""

\* a 'vi' call returned two words or more, one of them with a tone token
C1_Witness ==
  /\ ViReturned
  /\ Len(ret.word2ph[1]) >= 2
  /\ Sum(ret.word2ph[1]) >= 3
  /\ <<"2">> \in Range(locals.g2p_phones)

\* the version clean_text works with: the argument, or the environment's
VersionUsed == IF arg_version = "None" THEN locals.version ELSE arg_version

\* C2: every token of the phoneme sequence clean_text returns, for any language
\* and version, is a member of the symbol table the version selects (the v1
\* table for 'v1', the v2 table otherwise) or equals 'UNK'.
C2_SymbolClosure ==
  (op = "clean_text" /\ raised = "") =>
    \A i \in 1..Len(ret.phones) :
      \/ ret.phones[i] \in (IF VersionUsed = "v1" THEN symbols_v1 ELSE symbols_v2)
      \/ ret.phones[i] = UNK

\* the strategy returned a token of the table and one outside it, which became UNK
C2_Witness ==
  /\ op = "clean_text" /\ raised = ""
  /\ UNK \notin Range(locals.g2p_phones)
  /\ UNK \in Range(ret.phones)
  /\ \E i \in 1..Len(ret.phones) : ret.phones[i] \notin {UNK, <<",">>}

\* C3: for the padded class (language 'en', also after the fallback) the phoneme
\* sequence clean_text returns has length >= 4, whatever number of phonemes the
\* English strategy produced.
C3_MinLength ==
  (op = "clean_text" /\ raised = "" /\ locals.language = "en") =>
    Len(ret.phones) >= MinPhones

\* C4: text_normalize is idempotent: text_normalize applied to a value that
\* text_normalize returned returns that value.
C4_Idempotent ==
  (op = "text_normalize" /\ fed) => ret.text = arg_text

\* the result of clean_text(' ', 'en', version) when the English strategy
\* normalizes as n and returns the phonemes p
BlankEnglish(version, n, p) ==
  clean_text(<<" ">>, "en", version, None,
             [normalize |-> n, phones |-> p, word2ph |-> <<>>])

\* the call as a value: what it raised, returned and left in its locals
Outcome == [raised |-> raised, ret |-> ret, locals |-> locals]

\* the language argument is no key of the registry of the version used
UnknownLanguage ==
  /\ op = "clean_text"
  /\ \/ arg_language \notin {"zh", "ja", "en", "ko", "yue", "vi"}
     \/ VersionUsed = "v1" /\ arg_language \in {"ko", "yue"}

\* C5: a call of clean_text whose language is no key of the registry the version
\* selects ('ko' and 'yue' under 'v1' included) behaves as
\* clean_text(' ', 'en', version) whatever the text was: the language becomes
\* 'en', the text a single blank, the special-token short-circuit is not taken
\* and the returned word2ph is None.
C5_Fallback ==
  UnknownLanguage =>
    /\ raised = ""
    /\ locals.language = "en"
    /\ locals.text = <<" ">>
    /\ locals.special = None
    /\ ret.word2ph = None
    /\ \E n \in ExtNormalize : Outcome = BlankEnglish(VersionUsed, n, locals.g2p_phones)

\* 'ko' or 'yue' under 'v1', with a marker in the text
C5_Witness ==
  /\ UnknownLanguage
  /\ arg_language \in {"ko", "yue"}
  /\ Contains(arg_text, <<"yen">>)
  /\ raised = ""
  /\ ret.norm_text = <<" ">>

\* the text argument holds one of the two markers
HasMarker == Contains(arg_text, <<"yen">>) \/ Contains(arg_text, <<"^">>)

\* C6: a call clean_text(text, 'zh', version) whose text holds a marker takes the
\* clean_special path for the first matching triple (the yen sign, SP2, before
\* the caret, SP3) and returns a result instead of aborting; for any other
\* language the markers never trigger the short-circuit.
C6_SpecialPath ==
  op = "clean_text" =>
    IF arg_language = "zh" /\ HasMarker
    THEN /\ locals.special =
              Some(IF Contains(arg_text, <<"yen">>) THEN <<"S", "P", "2">>
                   ELSE <<"S", "P", "3">>)
         /\ raised = ""
    ELSE locals.special = None

\* the tokens g2p emits for one word
TokensOf(word) == g2p_step(word, g2p_start).phonemes

\* the tokens clean_text returns for one word
ReturnedTokensOf(word) ==
  validate(TokensOf(word), IF VersionUsed = "v1" THEN symbols_v1 ELSE symbols_v2)

\* C7: when clean_text with language 'vi' returns (phonemes, word2ph,
\* normalized_text), word2ph has one entry per whitespace-delimited word of
\* normalized_text, in word order, and entry i is the number of phoneme tokens
\* of word i (the phonemes being those tokens, word after word), although g2p
\* normalizes its normalized input again.
C7_WordAlignment ==
  ViReturned =>
    /\ Len(ret.word2ph[1]) = Len(Split(ret.norm_text))
    /\ \A i \in 1..Len(Split(ret.norm_text)) :
         /\ ret.word2ph[1][i] = Len(TokensOf(Split(ret.norm_text)[i]))
         /\ SubSeq(ret.phones,
                   Sum(SubSeq(ret.word2ph[1], 1, i - 1)) + 1,
                   Sum(SubSeq(ret.word2ph[1], 1, i)))
              = ReturnedTokensOf(Split(ret.norm_text)[i])

\* two words, a punctuation mark among them, and a normalized text that the
\* second normalization changes
C7_Witness ==
  /\ ViReturned
  /\ Len(Split(ret.norm_text)) >= 2
  /\ <<",">> \in Range(Split(ret.norm_text))
  /\ text_normalize(ret.norm_text) /= ret.norm_text
  /\ \E i \in 1..Len(ret.word2ph[1]) : ret.word2ph[1][i] >= 2

\* the words of the text given to g2p, as str.split() gives them
ArgWords == Split(arg_text)

\* C8: when a reserved special token (SP, SP2, SP3 or UNK) stands as a
\* whitespace-delimited word of the text given to g2p, g2p emits that token
\* verbatim as one phoneme with an alignment count of 1 for that word.  (Word i
\* of the text is word i of g2p when no word of the text is deleted whole, that
\* is when word2ph has an entry per word of the text.)
C8_SpecialVerbatim ==
  op = "g2p" =>
    \A i \in 1..Len(ArgWords) :
      (In(ArgWords[i], SPECIAL) /\ Len(ret.word2ph) = Len(ArgWords)) =>
        /\ ret.word2ph[i] = 1
        /\ ret.phonemes[Sum(SubSeq(ret.word2ph, 1, i - 1)) + 1] = ArgWords[i]

\* the tokens of the Vietnamese strategy
VietnameseTokens ==
  Range(PUNCTUATION) \cup Range(SPECIAL) \cup Range(INITIALS) \cup Range(FINALS)
    \cup {<<"2">>, <<"3">>, <<"4">>, <<"5">>, <<"6">>} \cup {UNK}

\* C9: every phoneme g2p returns is a punctuation mark, a special token, a
\* member of INITIALS or FINALS, a tone digit '2'..'6' or 'UNK': a final that is
\* not in FINALS after the repair is emitted as 'UNK', never as the raw string,
\* and the tone '1' is never emitted.
C9_VietnameseTokens ==
  op = "g2p" => \A i \in 1..Len(ret.phonemes) : ret.phonemes[i] \in VietnameseTokens

\* a word whose final is no member of FINALS came out as an initial and UNK
C9_Witness ==
  /\ op = "g2p"
  /\ \E i \in 1..Len(ret.phonemes) - 1 :
       /\ ret.phonemes[i] = <<"s">>
       /\ ret.phonemes[i + 1] = UNK
  /\ <<"a">> \in Range(ret.phonemes)

\* the members of INITIALS the word starts with
InitialPrefixes(word) == {x \in Range(INITIALS) : StartsWith(word, x)}

\* C10: split_vietnamese_word(w) returns as initial the longest member of
\* INITIALS that is a prefix of the de-toned word of find_tone(w), or '' when
\* there is none, and the initial followed by the candidate final is the
\* de-toned word.
C10_LongestInitial ==
  op = "split_vietnamese_word" =>
    /\ IF InitialPrefixes(find_tone(arg_text)[1]) = {}
       THEN ret.initial = <<>>
       ELSE /\ ret.initial \in InitialPrefixes(find_tone(arg_text)[1])
            /\ \A x \in InitialPrefixes(find_tone(arg_text)[1]) :
                 Len(x) <= Len(ret.initial)
    /\ ret.initial \o locals.candidate = find_tone(arg_text)[1]
    /\ ret.tone = find_tone(arg_text)[2]

\* 'ngh' won over 'ng' and 'n' in a word with a tone mark
C10_Witness ==
  /\ op = "split_vietnamese_word"
  /\ ret.initial = <<"n", "g", "h">>
  /\ ret.final = <<"a">>
  /\ ret.tone = <<"2">>

====
